---- MODULE Spec2Model ----
(***************************************************************************)
(* A model of the ciphey credential vault: the line-oriented record format *)
(* (ciphey-kvstore), the transparent crypto backend, the filesystem        *)
(* storage backend (libciphey-fs) and the init / new / list commands.      *)
(*                                                                         *)
(* Text is modelled as a sequence of one-character strings, so that        *)
(* formatting and parsing are computed character by character.             *)
(***************************************************************************)
EXTENDS Integers, Sequences, FiniteSets, TLC

VARIABLES
    entriesKind,  \* what is at <root>/entries: "absent" or "dir"
    files,        \* entry id -> bytes of <root>/entries/<id>.age, or NoFile
    others,       \* the other children of <root>/entries
    listed,       \* the keys of the map the last call returned, if it was
                  \* entries() (storage API)
    refs,         \* ids the caller holds a File reference for (storage API)
    writers,      \* ids with an open fs::File write handle (storage API)
    args,         \* the arguments the running `new` was given (record building)
    calls,        \* the calls the last `new` made on the storage backend and
                  \* on its encrypted writer, and its success message, in the
                  \* order they happened
    last,         \* the last operation and what it returned
    output,       \* what the last command wrote to its output stream
    created,      \* id -> what the caller stored for it: the record a completed
                  \* `new` built and wrote, or the bytes written (storage API)
    rendered,     \* id -> what the last `list` wrote for that entry
    store,        \* a KvStore (record format)
    buf,          \* the bytes KvStore::serialize wrote
    decoded,      \* the result of KvStore::deserialize
    shown,        \* the lines KvStore::display wrote
    recipients,   \* the recipients handed to Transparent::encrypt_output
    body,         \* the bytes written through the encrypted writer
    ciphertext,   \* the bytes that reached the wrapped writer
    plaintext     \* the bytes the decrypted reader yields

fsVars == <<entriesKind, files, others, listed, refs, writers>>
cliVars == <<output, created, rendered>>
kvVars == <<store, buf, decoded, shown>>
cryptoVars == <<recipients, body, ciphertext, plaintext>>
vars == <<entriesKind, files, others, listed, refs, writers, args, calls, last, output,
          created, rendered,
          store, buf, decoded, shown, recipients, body, ciphertext, plaintext>>

\* ------------------------------------------------------------------ text

NL == "\n"
CR == "\r"

Min(a, b) == IF a <= b THEN a ELSE b

\* The texts over alphabet A of length at most n.
StrUpTo(A, n) == UNION {[1..k -> A] : k \in 0..n}

\* The text made of n copies of character c.
Rep(c, n) == [i \in 1..n |-> c]

\* The sequences over set S of length at most n.
SeqUpTo(S, n) == UNION {[1..k -> S] : k \in 0..n}

\* Position of the first c in s, 0 when there is none (str::find).
IndexOf(s, c) ==
    IF \E i \in 1..Len(s) : s[i] = c
    THEN CHOOSE i \in 1..Len(s) : s[i] = c /\ \A j \in 1..(i - 1) : s[j] # c
    ELSE 0

StartsWith(s, p) == Len(s) >= Len(p) /\ SubSeq(s, 1, Len(p)) = p

EndsWith(s, c) == Len(s) > 0 /\ s[Len(s)] = c

RECURSIVE Concat(_)
Concat(ss) == IF ss = <<>> THEN <<>> ELSE Head(ss) \o Concat(Tail(ss))

\* The bytes a sequence of writeln! calls puts on a stream.
RECURSIVE WriteLines(_)
WriteLines(ls) ==
    IF ls = <<>> THEN <<>> ELSE Head(ls) \o <<NL>> \o WriteLines(Tail(ls))

\* BufRead::read_line: the bytes up to and including the first newline, or
\* everything that is left when there is none.
ReadLine(bytes) ==
    LET i == IndexOf(bytes, NL)
    IN  IF i = 0 THEN bytes ELSE SubSeq(bytes, 1, i)

\* BufRead::lines: the lines of bytes, each without its "\n" or "\r\n" ending;
\* a last line without a newline is kept as it is.
RECURSIVE Lines(_)
Lines(bytes) ==
    IF bytes = <<>> THEN <<>>
    ELSE LET i == IndexOf(bytes, NL)
         IN  IF i = 0 THEN <<bytes>>
             ELSE LET l == SubSeq(bytes, 1, i - 1)
                      line == IF EndsWith(l, CR) THEN SubSeq(l, 1, Len(l) - 1) ELSE l
                  IN  <<line>> \o Lines(SubSeq(bytes, i + 1, Len(bytes)))

\* --------------------------------------------------------- record format

DELIMETER == "="
SENSITIVITY == "!"
REDACT_MAX == 16

WellKnown ==
    [Name     |-> <<"n", "a", "m", "e">>,
     Username |-> <<"u", "s", "e", "r", "n", "a", "m", "e">>,
     Email    |-> <<"e", "m", "a", "i", "l">>,
     Password |-> <<"p", "a", "s", "s", "w", "o", "r", "d">>,
     Url      |-> <<"u", "r", "l">>,
     Notes    |-> <<"n", "o", "t", "e", "s">>]

\* enum Key: a well-known tag, or Other(text).
WellKnownKey(tag) == [tag |-> tag, text |-> <<>>]
OtherKey(t) == [tag |-> "Other", text |-> t]

\* A parser without the well-known variants.
KeyFromStrOther(s) == OtherKey(s)

\* impl FromStr for Key
KeyFromStr(s) ==
    IF \E tag \in DOMAIN WellKnown : WellKnown[tag] = s
    THEN WellKnownKey(CHOOSE tag \in DOMAIN WellKnown : WellKnown[tag] = s)
    ELSE OtherKey(s)

\* impl Display for Key
KeyDisplay(k) == IF k.tag = "Other" THEN k.text ELSE WellKnown[k.tag]

\* enum Value
Sensitive(t) == [sensitive |-> TRUE, text |-> t]
Insensitive(t) == [sensitive |-> FALSE, text |-> t]

\* KeyValuePair::new
KeyValuePair(key, value) == [key |-> key, value |-> value]

NoPair == KeyValuePair(OtherKey(<<>>), Insensitive(<<>>))

\* A parser that splits at the last delimiter (rsplit_once).
KeyValuePairFromStrLast(s) ==
    LET i == IF \E j \in 1..Len(s) : s[j] = "="
             THEN CHOOSE j \in 1..Len(s) :
                      s[j] = "=" /\ \A k \in (j + 1)..Len(s) : s[k] # "="
             ELSE 0
    IN  IF i = 0
        THEN [ok |-> FALSE, err |-> "MissingDelimeter", pair |-> NoPair]
        ELSE LET key == SubSeq(s, 1, i - 1)
                 text == SubSeq(s, i + 1, Len(s))
                 sens == EndsWith(key, "!")
             IN  [ok |-> TRUE, err |-> "none",
                  pair |-> KeyValuePair(
                      KeyFromStr(IF sens THEN SubSeq(key, 1, Len(key) - 1) ELSE key),
                      [sensitive |-> sens, text |-> text])]

\* A parser that strips every trailing sensitivity marker from the key span.
KeyValuePairFromStrTrim(s) ==
    LET i == IndexOf(s, DELIMETER)
        key == SubSeq(s, 1, i - 1)
        n == IF \E k \in 1..Len(key) : key[k] # SENSITIVITY
             THEN CHOOSE k \in 1..Len(key) :
                      key[k] # SENSITIVITY /\ \A j \in (k + 1)..Len(key) : key[j] = SENSITIVITY
             ELSE 0
    IN  IF i = 0
        THEN [ok |-> FALSE, err |-> "MissingDelimeter", pair |-> NoPair]
        ELSE [ok |-> TRUE, err |-> "none",
              pair |-> KeyValuePair(KeyFromStr(SubSeq(key, 1, n)),
                                    [sensitive |-> EndsWith(key, SENSITIVITY),
                                     text |-> SubSeq(s, i + 1, Len(s))])]

\* impl FromStr for KeyValuePair: split at the first delimiter; a key span that
\* ends with the sensitivity marker gives a sensitive value and loses the marker.
KeyValuePairFromStr(s) ==
    LET i == IndexOf(s, DELIMETER)
    IN  IF i = 0
        THEN [ok |-> FALSE, err |-> "MissingDelimeter", pair |-> NoPair]
        ELSE LET key == SubSeq(s, 1, i - 1)
                 text == SubSeq(s, i + 1, Len(s))
                 value == IF EndsWith(key, SENSITIVITY)
                          THEN Sensitive(text) ELSE Insensitive(text)
                 popped == IF EndsWith(key, SENSITIVITY)
                           THEN SubSeq(key, 1, Len(key) - 1) ELSE key
             IN  [ok |-> TRUE, err |-> "none",
                  pair |-> KeyValuePair(KeyFromStr(popped), value)]

\* impl Display for KeyValuePair
KeyValuePairDisplay(p) ==
    KeyDisplay(p.key)
        \o (IF p.value.sensitive THEN <<SENSITIVITY>> ELSE <<>>)
        \o <<DELIMETER>> \o p.value.text

\* KvStore::serialize: one writeln! per pair.
Serialize(s) == WriteLines([i \in 1..Len(s) |-> KeyValuePairDisplay(s[i])])

\* A decode that skips the lines it cannot parse.
DeserializeSkip(bytes) ==
    LET ls == SelectSeq(Lines(bytes), LAMBDA l : KeyValuePairFromStr(l).ok)
    IN  [ok |-> TRUE, err |-> "none",
         store |-> [i \in 1..Len(ls) |-> KeyValuePairFromStr(ls[i]).pair]]

\* A decode into a map: a later line replaces an earlier one with its key.
DeserializeUnique(bytes) ==
    LET ls == Lines(bytes)
        parsed == [i \in 1..Len(ls) |-> KeyValuePairFromStr(ls[i])]
        kept == SelectSeq([i \in 1..Len(ls) |-> [at |-> i, pair |-> parsed[i].pair]],
                          LAMBDA x : \A j \in (x.at + 1)..Len(ls) :
                                        parsed[j].pair.key # x.pair.key)
    IN  IF \A i \in 1..Len(ls) : parsed[i].ok
        THEN [ok |-> TRUE, err |-> "none",
              store |-> [i \in 1..Len(kept) |-> kept[i].pair]]
        ELSE [ok |-> FALSE, err |-> "MissingDelimeter", store |-> <<>>]

\* KvStore::deserialize: every line must parse, or the whole decode fails.
Deserialize(bytes) ==
    LET ls == Lines(bytes)
        parsed == [i \in 1..Len(ls) |-> KeyValuePairFromStr(ls[i])]
    IN  IF \A i \in 1..Len(ls) : parsed[i].ok
        THEN [ok |-> TRUE, err |-> "none",
              store |-> [i \in 1..Len(ls) |-> parsed[i].pair]]
        ELSE [ok |-> FALSE, err |-> "MissingDelimeter", store |-> <<>>]

\* struct DisplayOptions
DisplayOptions(show_all, enabled_keys) ==
    [show_all |-> show_all, enabled_keys |-> enabled_keys]

\* A redaction that always writes the full run of asterisks.
RenderValueFixed(value, show_secrets) ==
    IF value.sensitive /\ ~show_secrets THEN Rep("*", REDACT_MAX) ELSE value.text

\* A redaction without the cap: one asterisk per byte of the value.
RenderValueUncapped(value, show_secrets) ==
    IF value.sensitive /\ ~show_secrets
    THEN Rep("*", Len(value.text)) ELSE value.text

\* KvStore::display, the value column: a sensitive value is shown only with
\* show_secrets, and is otherwise replaced by at most REDACT_MAX asterisks.
RenderValue(value, show_secrets) ==
    IF value.sensitive
    THEN IF show_secrets THEN value.text
         ELSE Rep("*", Min(Len(value.text), REDACT_MAX))
    ELSE value.text

\* A key filter that looks at the allow-set only.
SelectedAllowOnly(key, opts) == key \in opts.enabled_keys

\* KvStore::display, the key filter.
Selected(key, opts) == opts.show_all \/ key \in opts.enabled_keys

\* KvStore::display: the lines written (one writeln! each), in record order.
RECURSIVE KvStoreDisplay(_, _, _)
KvStoreDisplay(s, opts, show_secrets) ==
    IF s = <<>> THEN <<>>
    ELSE (IF Selected(Head(s).key, opts)
          THEN <<KeyDisplay(Head(s).key) \o <<":", " ">>
                    \o RenderValue(Head(s).value, show_secrets)>>
          ELSE <<>>)
         \o KvStoreDisplay(Tail(s), opts, show_secrets)

\* ------------------------------------------------- transparent backend

ARROW == <<"-", ">", " ">>
SEPARATOR == <<"-", "-", "-">>

\* A header that has a separator only behind a recipient.
EncryptOutputBare(rs) ==
    IF rs = <<>> THEN <<>>
    ELSE WriteLines([i \in 1..Len(rs) |-> ARROW \o rs[i]]) \o WriteLines(<<SEPARATOR>>)

\* Transparent::encrypt_output: the header written to the wrapped writer.
EncryptOutput(rs) ==
    WriteLines([i \in 1..Len(rs) |-> ARROW \o rs[i]]) \o WriteLines(<<SEPARATOR>>)

\* Transparent::decrypt_input: the bytes left in the reader after the header
\* scan.  Each round reads a line; when it starts with the arrow, the body of
\* the loop reads (and drops) one more line before the next round.
RECURSIVE DecryptInput(_)
DecryptInput(bytes) ==
    LET line == ReadLine(bytes)
        rest == SubSeq(bytes, Len(line) + 1, Len(bytes))
    IN  IF StartsWith(line, ARROW)
        THEN LET second == ReadLine(rest)
             IN  DecryptInput(SubSeq(rest, Len(second) + 1, Len(rest)))
        ELSE rest

\* ------------------------------------------------- filesystem backend

\* The entry identifiers the model mints (Uuid::new_v4 draws one of them).
MaxUuid == 2
Uuids == 1..MaxUuid

NoFile == [exists |-> FALSE, bytes |-> <<>>]
FileOf(bytes) == [exists |-> TRUE, bytes |-> bytes]

\* What Path::exists / metadata().is_dir() see at an entry file's path.
FileKind(f) == IF f.exists THEN "file" ELSE "absent"

\* A Directory::new that wants the directory to be there.
DirectoryNewExisting(kind) ==
    IF kind = "absent" THEN "NotFound"
    ELSE IF kind # "dir" THEN "NotADirectory" ELSE "Ok"

\* Directory::new: refuses a path that exists and is not a directory.
DirectoryNew(kind) ==
    IF kind # "absent" /\ kind # "dir" THEN "NotADirectory" ELSE "Ok"

\* File::new: refuses a path that exists and is a directory.
FileNew(kind) == IF kind = "dir" THEN "IsADirectory" ELSE "Ok"

\* Filesystem::entries_path: root.subdirectory("entries").
EntriesPath(ek) == DirectoryNew(ek)

\* Path::extension and Path::file_stem of a file name: the name is split at
\* its last dot, unless it has none or only a leading one.
LastDot(n) ==
    LET dots == {i \in 1..Len(n) : n[i] = "."}
    IN  IF dots = {} THEN 0 ELSE CHOOSE i \in dots : \A j \in dots : j <= i
HasExtension(n) == LastDot(n) > 1
Extension(n) == SubSeq(n, LastDot(n) + 1, Len(n))
FileStem(n) == IF HasExtension(n) THEN SubSeq(n, 1, LastDot(n) - 1) ELSE n

AGE == <<"a", "g", "e">>
HexDigits == <<"0", "1", "2", "3", "4", "5", "6", "7", "8", "9",
               "a", "b", "c", "d", "e", "f">>
Hyphen == "-"

\* Uuid::hyphenated().to_string() of the identifier numbered id: 8-4-4-4-12
\* lower-case hex digits.
Hyphenated(id) ==
    Rep("0", 8) \o <<Hyphen>> \o Rep("0", 4) \o <<Hyphen>> \o Rep("0", 4)
        \o <<Hyphen>> \o Rep("0", 4) \o <<Hyphen>> \o Rep("0", 11)
        \o <<HexDigits[id + 1]>>

\* Uuid::from_str: the hyphenated form, or the same 32 digits without the
\* hyphens (the upper-case, urn and braced forms are not drawn).  The
\* identifier's number, 0 on a parse error; identifiers the model does not
\* number are lumped into one, UnknownUuid.
UnknownUuid == 16
UuidFromStr(t) ==
    LET hyphens == {9, 14, 19, 24}
        digits == IF Len(t) = 36 /\ \A i \in hyphens : t[i] = Hyphen
                  THEN SelectSeq([i \in 1..36 |-> IF i \in hyphens THEN "" ELSE t[i]],
                                 LAMBDA c : c # "")
                  ELSE t
        value(c) == CHOOSE v \in 0..15 : HexDigits[v + 1] = c
    IN  IF Len(digits) # 32 THEN 0
        ELSE IF \E i \in 1..32 : digits[i] \notin {HexDigits[v] : v \in 1..16} THEN 0
        ELSE IF (\E i \in 1..31 : digits[i] # "0") \/ digits[32] = "0" THEN UnknownUuid
        ELSE value(digits[32])

\* A file name without the extension.
EntryFileNameBare(id) == Hyphenated(id)

\* Filesystem::add_entry, the file name: the hyphenated identifier with the
\* extension set to "age".
EntryFileName(id) == FileStem(Hyphenated(id)) \o <<".">> \o AGE

\* A child of the entries directory: its file name, and whether it is a
\* directory.
Child(name, is_dir) == [name |-> name, is_dir |-> is_dir]

ChildKind(c) == IF c.is_dir THEN "dir" ELSE "file"

\* Children that are not entry files: a subdirectory, a directory named like
\* an entry, a file with another extension, one named by an identifier with
\* another extension, one without extension, and an .age file whose stem is
\* no identifier.
ForeignChildren ==
    {Child(<<"s", "u", "b">>, TRUE),
     Child(EntryFileName(MaxUuid + 1), TRUE),
     Child(<<"n", "o", "t", "e", "s", ".", "t", "x", "t">>, FALSE),
     Child(Hyphenated(1) \o <<".", "t", "x", "t">>, FALSE),
     Child(<<"R", "E", "A", "D", "M", "E">>, FALSE),
     Child(<<"n", "o", "t", "e", "s", ".", "a", "g", "e">>, FALSE)}

\* What the loop of Filesystem::entries reads off a file name: whether the
\* extension is "age", and the identifier the stem parses to.  Tabulated once
\* for every name the directory can hold.
NameInfo ==
    [n \in {EntryFileName(id) : id \in Uuids} \cup {c.name : c \in ForeignChildren} |->
        [age |-> HasExtension(n) /\ Extension(n) = AGE,
         uuid |-> UuidFromStr(FileStem(n))]]

\* fs::read_dir of the entries directory: the entry files and the others.
ReadDir(fls, oth) ==
    {Child(EntryFileName(id), FALSE) : id \in {i \in DOMAIN fls : fls[i].exists}}
        \cup oth

\* An enumeration in which an .age file with an unparsable stem is an error.
FilesystemEntriesStrict(ek, fls, oth) ==
    LET aged == {c \in ReadDir(fls, oth) : ~c.is_dir /\ NameInfo[c.name].age}
    IN  IF EntriesPath(ek) # "Ok" THEN [res |-> EntriesPath(ek), ids |-> {}]
        ELSE IF ek # "dir" THEN [res |-> "NotFound", ids |-> {}]
        ELSE IF \E c \in aged : NameInfo[c.name].uuid = 0
        THEN [res |-> "InvalidData", ids |-> {}]
        ELSE [res |-> "Ok", ids |-> {NameInfo[c.name].uuid : c \in aged}]

\* Filesystem::entries: read_dir of the entries directory, one reference per
\* entry file.
FilesystemEntries(ek, fls, oth) ==
    IF EntriesPath(ek) # "Ok" THEN [res |-> EntriesPath(ek), ids |-> {}]
    ELSE IF ek # "dir" THEN [res |-> "NotFound", ids |-> {}]
    ELSE LET kept == {c \in ReadDir(fls, oth) :
                         /\ ~c.is_dir
                         /\ NameInfo[c.name].age
                         /\ NameInfo[c.name].uuid # 0}
         IN  IF \E c \in kept : FileNew(ChildKind(c)) # "Ok"
             THEN [res |-> "IsADirectory", ids |-> {}]
             ELSE [res |-> "Ok", ids |-> {NameInfo[c.name].uuid : c \in kept}]

\* Filesystem::add_entry: builds the path <entries>/<uuid>.age and validates
\* it with File::new; nothing is looked up or created.
FilesystemAddEntry(ek, fls, id) ==
    IF EntriesPath(ek) # "Ok" THEN EntriesPath(ek)
    ELSE FileNew(FileKind(fls[id]))

\* A create that goes straight to create_dir_all, which accepts a directory
\* that is already there.
FilesystemCreateAll(ek) ==
    IF EntriesPath(ek) # "Ok" THEN [res |-> EntriesPath(ek), kind |-> ek]
    ELSE [res |-> "Ok", kind |-> "dir"]

\* Filesystem::create: fails if the entries path exists, else create_dir_all.
FilesystemCreate(ek) ==
    IF EntriesPath(ek) # "Ok" THEN [res |-> EntriesPath(ek), kind |-> ek]
    ELSE IF ek # "absent" THEN [res |-> "AlreadyExists", kind |-> ek]
    ELSE [res |-> "Ok", kind |-> "dir"]

\* A writer that opens with create(true).truncate(true) instead of create_new.
FileWriterTruncate(ek, fls, id) ==
    IF ek # "dir" THEN [res |-> "NotFound", files |-> fls]
    ELSE [res |-> "Ok", files |-> [fls EXCEPT ![id] = FileOf(<<>>)]]

\* File::writer: OpenOptions::create_new(true).write(true).open(path).
FileWriter(ek, fls, id) ==
    IF ek # "dir" THEN [res |-> "NotFound", files |-> fls]
    ELSE IF fls[id].exists THEN [res |-> "AlreadyExists", files |-> fls]
    ELSE [res |-> "Ok", files |-> [fls EXCEPT ![id] = FileOf(<<>>)]]

\* File::reader: OpenOptions::read(true).open(path).
FileReader(fls, id) ==
    IF fls[id].exists THEN [res |-> "Ok", bytes |-> fls[id].bytes]
    ELSE [res |-> "NotFound", bytes |-> <<>>]

\* impl Display for File: the path of the entry file.
FileDisplay(id) ==
    <<"e", "n", "t", "r", "i", "e", "s", "/">> \o EntryFileName(id)

\* ------------------------------------------------------------ commands

\* cli::defaults::KEYS
DefaultKeys ==
    {WellKnownKey("Name"), WellKnownKey("Username"),
     WellKnownKey("Email"), WellKnownKey("Url")}

SecretKeyText == <<"s", "e", "c", "r", "e", "t">>

\* Vec::insert(index, element), index counted from 0.
Insert(s, index, x) == SubSeq(s, 1, index) \o <<x>> \o SubSeq(s, index + 1, Len(s))

\* An OsString is text over characters and BadByte, which stands for a byte
\* sequence that is not valid Unicode.
BadByte == "\\xFF"

\* flags::util::parse_os_str: OsString::to_str, None when the argument is
\* not valid Unicode.
ParseOsStr(t) == \A i \in 1..Len(t) : t[i] # BadByte

\* flags::util::parse_recipients for the transparent backend, whose Recipient
\* is made from any String: only the conversion of the OsString can fail.
ParseRecipients(rs) ==
    IF \A i \in 1..Len(rs) : ParseOsStr(rs[i]) THEN "Ok" ELSE "Xflags"

\* flags::util::parse_key_value_pairs: every --key argument must be valid
\* Unicode, and then every one must parse.
ParseKeyValuePairs(keys) ==
    LET parsed == [i \in 1..Len(keys) |-> KeyValuePairFromStr(keys[i])]
    IN  IF \E i \in 1..Len(keys) : ~ParseOsStr(keys[i])
        THEN [ok |-> FALSE, err |-> "Xflags", pairs |-> <<>>]
        ELSE IF \A i \in 1..Len(keys) : parsed[i].ok
        THEN [ok |-> TRUE, err |-> "none",
              pairs |-> [i \in 1..Len(keys) |-> parsed[i].pair]]
        ELSE [ok |-> FALSE, err |-> "MissingDelimeter", pairs |-> <<>>]

\* A record with the name in front and the secret pushed behind the pairs.
NewStoreSecretLast(name, secret, pairs) ==
    <<KeyValuePair(KeyFromStr(WellKnown.Name), Insensitive(name))>> \o pairs
        \o <<KeyValuePair(KeyFromStr(SecretKeyText), Sensitive(secret))>>

\* cli::new, the record it builds: the parsed pairs with the name inserted at
\* index 0 and the secret at index 1.
NewStore(name, secret, pairs) ==
    Insert(Insert(pairs, 0, KeyValuePair(KeyFromStr(WellKnown.Name), Insensitive(name))),
           1, KeyValuePair(KeyFromStr(SecretKeyText), Sensitive(secret)))

NoFault == [at |-> "none", after |-> 0]

\* A `new` that asks the storage backend for the reference and its writer
\* before it looks at its arguments.
NewStorageFirst(ek, fls, rs, name, secret, keys, uuid, fault) ==
    LET parsed == ParseKeyValuePairs(keys)
        kvs == NewStore(name, secret, parsed.pairs)
        add == FilesystemAddEntry(ek, fls, uuid)
        w == FileWriter(ek, fls, uuid)
        header == EncryptOutput(rs)
        fail(res, f, cs) == [res |-> res, files |-> f, output |-> <<>>,
                             completed |-> FALSE, store |-> <<>>, calls |-> cs]
    IN  IF add # "Ok" THEN fail(add, fls, <<"add_entry">>)
        ELSE IF w.res # "Ok" THEN fail(w.res, w.files, <<"add_entry", "writer">>)
        ELSE IF ParseRecipients(rs) # "Ok"
        THEN fail("Xflags", w.files, <<"add_entry", "writer">>)
        ELSE IF fault.at \in {"name", "secret"}
        THEN fail("Input", w.files, <<"add_entry", "writer">>)
        ELSE IF ~ParseOsStr(name) \/ ~ParseOsStr(secret)
        THEN fail("Xflags", w.files, <<"add_entry", "writer">>)
        ELSE IF ~parsed.ok THEN fail(parsed.err, w.files, <<"add_entry", "writer">>)
        ELSE IF fault.at = "header"
        THEN fail("Panic", w.files, <<"add_entry", "writer", "encrypt_output">>)
        ELSE IF fault.at = "serialize"
        THEN fail("IoError",
                  [w.files EXCEPT ![uuid] =
                      FileOf(header \o Serialize(SubSeq(kvs, 1, fault.after)))],
                  <<"add_entry", "writer", "encrypt_output">>
                      \o Rep("writeln", fault.after) \o <<"drop">>)
        ELSE [res |-> "Ok",
              calls |-> <<"add_entry", "writer", "encrypt_output">>
                            \o Rep("writeln", Len(kvs)) \o <<"message", "drop">>,
              files |-> [w.files EXCEPT ![uuid] = FileOf(header \o Serialize(kvs))],
              output |-> <<<<"C", "r", "e", "a", "t", "e", "d", " ", "n", "e", "w",
                             " ", "e", "n", "t", "r", "y", " ", "a", "t", " ",
                             "p", "a", "t", "h", ":", " ">> \o FileDisplay(uuid)>>,
              completed |-> TRUE, store |-> kvs]

\* cli::new.  `fault` is where the environment fails the run, if it does: the
\* name or the secret was not passed and reading it from the prompt fails, or
\* the medium fails a write, at the recipient header (encrypt_output is
\* unwrapped, so the process panics) or in serialize after `after` record
\* lines.  The field calls lists what new does with the storage backend and
\* the encrypted writer: add_entry, writer on the reference, encrypt_output,
\* one writeln! per record line, the success message, and the drop of the
\* encrypted writer when new returns.
New(ek, fls, rs, name, secret, keys, uuid, fault) ==
    LET parsed == ParseKeyValuePairs(keys)
        kvs == NewStore(name, secret, parsed.pairs)
        add == FilesystemAddEntry(ek, fls, uuid)
        w == FileWriter(ek, fls, uuid)
        header == EncryptOutput(rs)
        fail(res, f, cs) == [res |-> res, files |-> f, output |-> <<>>,
                             completed |-> FALSE, store |-> <<>>, calls |-> cs]
    IN  IF ParseRecipients(rs) # "Ok" THEN fail("Xflags", fls, <<>>)
        ELSE IF fault.at = "name" THEN fail("Input", fls, <<>>)
        ELSE IF ~ParseOsStr(name) THEN fail("Xflags", fls, <<>>)
        ELSE IF fault.at = "secret" THEN fail("Input", fls, <<>>)
        ELSE IF ~ParseOsStr(secret) THEN fail("Xflags", fls, <<>>)
        ELSE IF ~parsed.ok THEN fail(parsed.err, fls, <<>>)
        ELSE IF add # "Ok" THEN fail(add, fls, <<"add_entry">>)
        ELSE IF w.res # "Ok" THEN fail(w.res, w.files, <<"add_entry", "writer">>)
        ELSE IF fault.at = "header"
        THEN fail("Panic", w.files, <<"add_entry", "writer", "encrypt_output">>)
        ELSE IF fault.at = "serialize"
        THEN fail("IoError",
                  [w.files EXCEPT ![uuid] =
                      FileOf(header \o Serialize(SubSeq(kvs, 1, fault.after)))],
                  <<"add_entry", "writer", "encrypt_output">>
                      \o Rep("writeln", fault.after) \o <<"drop">>)
        ELSE [res |-> "Ok",
              calls |-> <<"add_entry", "writer", "encrypt_output">>
                            \o Rep("writeln", Len(kvs)) \o <<"message", "drop">>,
              files |-> [w.files EXCEPT ![uuid] = FileOf(header \o Serialize(kvs))],
              output |-> <<<<"C", "r", "e", "a", "t", "e", "d", " ", "n", "e", "w",
                             " ", "e", "n", "t", "r", "y", " ", "a", "t", " ",
                             "p", "a", "t", "h", ":", " ">> \o FileDisplay(uuid)>>,
              completed |-> TRUE, store |-> kvs]

\* Decimal digits of a natural number ({} formatting of usize).
RECURSIVE Digits(_)
Digits(n) ==
    LET d == <<"0", "1", "2", "3", "4", "5", "6", "7", "8", "9">>
    IN  IF n < 10 THEN <<d[n + 1]>> ELSE Digits(n \div 10) \o <<d[(n % 10) + 1]>>

\* struct flags::List and the SecretVisibility passed beside it.
ListOpts(all, no_default, display, quiet, show_secrets) ==
    [all |-> all, no_default |-> no_default, display |-> display,
     quiet |-> quiet, show_secrets |-> show_secrets]

NotRendered == [done |-> FALSE, lines |-> <<>>]

\* Enabled keys that always include the defaults.
EnabledKeysWithDefaults(opts) ==
    DefaultKeys \cup {KeyFromStr(k) : k \in opts.display}

\* cli::list, the keys enabled for display.
EnabledKeys(opts) ==
    (IF ~opts.no_default THEN DefaultKeys ELSE {})
        \cup {KeyFromStr(k) : k \in opts.display}

\* cli::list, the loop over the references, in the order the map yields them:
\* every `?` in the body returns from list.
RECURSIVE ListLoop(_, _, _, _)
ListLoop(fls, order, opts, acc) ==
    IF order = <<>> THEN [acc EXCEPT !.res = "Ok"]
    ELSE LET id == Head(order)
             out == acc.output \o <<SEPARATOR>>
             rd == FileReader(fls, id)
             dec == Deserialize(DecryptInput(rd.bytes))
             lines == KvStoreDisplay(dec.store,
                                     DisplayOptions(opts.all, EnabledKeys(opts)),
                                     opts.show_secrets)
         IN  IF rd.res # "Ok" THEN [acc EXCEPT !.res = rd.res, !.output = out]
             ELSE IF ~dec.ok THEN [acc EXCEPT !.res = dec.err, !.output = out]
             ELSE ListLoop(fls, Tail(order), opts,
                           [acc EXCEPT !.output = out \o lines,
                                       !.rendered[id] = [done |-> TRUE, lines |-> lines]])

\* cli::list
List(ek, fls, oth, opts, order) ==
    LET e == FilesystemEntries(ek, fls, oth)
        count == Cardinality(e.ids)
        plural == IF count = 1 THEN <<" ", "E", "n", "t", "r", "y">>
                  ELSE <<" ", "E", "n", "t", "r", "i", "e", "s">>
        found == IF opts.quiet THEN <<>>
                 ELSE <<<<"F", "o", "u", "n", "d", " ">> \o Digits(count) \o plural>>
        none == [id \in DOMAIN fls |-> NotRendered]
    IN  IF e.res # "Ok" THEN [res |-> e.res, output |-> <<>>, rendered |-> none]
        ELSE ListLoop(fls, order, opts,
                      [res |-> "Ok", output |-> found, rendered |-> none])

\* The orders in which a HashMap may yield the members of S.
Orders(S) == {o \in [1..Cardinality(S) -> S] : \A i, j \in DOMAIN o : o[i] = o[j] => i = j}

\* ------------------------------------------------- the vault's commands

MaxRecipients == 2
MaxKeyArgs == 1
MaxFaultAfter == 0

\* The arguments the commands are run with.
Names == {<<"n">>, <<"x", NL, "y">>}
Secrets == {<<"s">>}
RecipientTexts == {<<"A">>}
RecipientLists == SeqUpTo(RecipientTexts, MaxRecipients)
KeyArgTexts ==
    {<<"p", "a", "s", "s", "w", "o", "r", "d", "=", "p">>,
     <<"b", "a", "d">>}
KeyArgs == SeqUpTo(KeyArgTexts, MaxKeyArgs)
DisplayArgs == {{}, {WellKnown.Password}}

\* Where a write to the entry file may fail while `new` writes nlines record
\* lines: at the header, or in serialize after some of the record lines.
Faults(nlines) ==
    {NoFault, [at |-> "header", after |-> 0]}
        \cup {[at |-> "serialize", after |-> k] :
                 k \in 0..Min(nlines - 1, MaxFaultAfter)}

NoOpts == ListOpts(FALSE, FALSE, {}, FALSE, FALSE)
NoEntry == [done |-> FALSE, store |-> <<>>, recipients |-> <<>>, bytes |-> <<>>]

\* struct flags::New: the recipients, the name, the secret and the --key
\* arguments.
NewArgs(rs, name, secret, keys) ==
    [recipient |-> rs, name |-> name, secret |-> secret, key |-> keys]
NoArgs == NewArgs(<<>>, <<>>, <<>>, <<>>)

Op(op, id, res, opts) == [op |-> op, id |-> id, res |-> res, opts |-> opts]

\* The variables of the record-format and crypto checks, unused by the vault.
IdleKv ==
    /\ store = <<>>
    /\ buf = <<>>
    /\ decoded = [ok |-> FALSE, err |-> "none", store |-> <<>>]
    /\ shown = <<>>

IdleCrypto ==
    /\ recipients = <<>>
    /\ body = <<>>
    /\ ciphertext = <<>>
    /\ plaintext = <<>>

IdleVault ==
    /\ entriesKind = "absent"
    /\ files = [id \in Uuids |-> NoFile]
    /\ others = {}
    /\ listed = {}
    /\ args = NoArgs
    /\ calls = <<>>
    /\ refs = {}
    /\ writers = {}
    /\ output = <<>>
    /\ created = [id \in Uuids |-> NoEntry]
    /\ rendered = [id \in Uuids |-> NotRendered]

\* A vault root that has not been initialized, and no command running.  Each
\* command is one run of the process: it starts from the vault as the last
\* run left it, and its output and results end with it (Exit).
Init ==
    /\ IdleVault
    /\ last = Op("none", 0, "none", NoOpts)
    /\ IdleKv
    /\ IdleCrypto

\* `ciphey init`
InitCmd ==
    LET r == FilesystemCreate(entriesKind)
    IN  /\ last.op = "none"
        /\ entriesKind' = r.kind
        /\ last' = Op("init", 0, r.res, NoOpts)
        /\ output' = <<>>
        /\ rendered' = [id \in Uuids |-> NotRendered]
        /\ UNCHANGED <<args, calls, files, others, listed, refs, writers, created, kvVars, cryptoVars>>

\* `ciphey new`
NewCmd ==
    /\ last.op = "none"
    /\ \E rs \in RecipientLists, name \in Names, secret \in Secrets,
       keys \in KeyArgs, uuid \in Uuids :
        \E fault \in Faults(Len(keys) + 2) :
            LET r == New(entriesKind, files, rs, name, secret, keys, uuid, fault)
            IN  /\ files' = r.files
                /\ last' = Op("new", uuid, r.res, NoOpts)
                /\ output' = r.output
                /\ created' =
                       IF r.completed
                       THEN [created EXCEPT ![uuid] =
                                [done |-> TRUE, store |-> r.store, recipients |-> rs,
                                 bytes |-> r.files[uuid].bytes]]
                       ELSE created
                /\ rendered' = [id \in Uuids |-> NotRendered]
                /\ calls' = r.calls
                /\ UNCHANGED <<args, entriesKind, others, listed, refs, writers, kvVars, cryptoVars>>

\* `ciphey list`
ListCmd ==
    /\ last.op = "none"
    /\ \E order \in Orders(FilesystemEntries(entriesKind, files, others).ids) :
        \E all \in BOOLEAN, no_default \in BOOLEAN, display \in DisplayArgs,
           quiet \in BOOLEAN, show_secrets \in BOOLEAN :
            LET opts == ListOpts(all, no_default, display, quiet, show_secrets)
                r == List(entriesKind, files, others, opts, order)
            IN  /\ last' = Op("list", 0, r.res, opts)
                /\ output' = r.output
                /\ rendered' = r.rendered
                /\ UNCHANGED <<args, calls, fsVars, created, kvVars, cryptoVars>>

\* main returns: the process ends, the vault stays.
Exit ==
    /\ last.op # "none"
    /\ last' = Op("none", 0, "none", NoOpts)
    /\ output' = <<>>
    /\ rendered' = [id \in Uuids |-> NotRendered]
    /\ calls' = <<>>
    /\ UNCHANGED <<args, fsVars, created, kvVars, cryptoVars>>

Next == InitCmd \/ NewCmd \/ ListCmd \/ Exit

Spec == Init /\ [][Next]_vars

\* --------------------------------------------------- the storage API

MaxData == 1
DataBytes == {"a", "b"}

InitFs ==
    /\ IdleVault
    /\ last = Op("none", 0, "none", NoOpts)
    /\ IdleKv
    /\ IdleCrypto

\* Backend::create
FsCreate ==
    LET r == FilesystemCreate(entriesKind)
    IN  /\ entriesKind' = r.kind
        /\ listed' = {}
        /\ last' = Op("create", 0, r.res, NoOpts)
        /\ UNCHANGED <<args, calls, files, others, refs, writers, cliVars, kvVars, cryptoVars>>

\* Backend::entries: the caller gets a reference for every entry.
FsEntries ==
    LET r == FilesystemEntries(entriesKind, files, others)
    IN  /\ refs' = refs \cup r.ids
        /\ listed' = r.ids
        /\ last' = Op("entries", 0, r.res, NoOpts)
        /\ UNCHANGED <<args, calls, entriesKind, files, others, writers, cliVars, kvVars, cryptoVars>>

\* Backend::add_entry(uuid)
FsAddEntry ==
    \E id \in Uuids :
        LET res == FilesystemAddEntry(entriesKind, files, id)
        IN  /\ refs' = IF res = "Ok" THEN refs \cup {id} ELSE refs
            /\ listed' = {}
            /\ last' = Op("add_entry", id, res, NoOpts)
            /\ UNCHANGED <<args, calls, entriesKind, files, others, writers, cliVars, kvVars, cryptoVars>>

\* Reference::writer on a reference the caller holds
FsWriter ==
    \E id \in refs :
        LET r == FileWriter(entriesKind, files, id)
        IN  /\ files' = r.files
            /\ writers' = IF r.res = "Ok" THEN writers \cup {id} ELSE writers
            /\ created' = IF r.res = "Ok" /\ ~created[id].done
                           THEN [created EXCEPT ![id].done = TRUE]
                           ELSE created
            /\ listed' = {}
            /\ last' = Op("writer", id, r.res, NoOpts)
            /\ UNCHANGED <<args, calls, entriesKind, others, refs, output, rendered,
                           kvVars, cryptoVars>>

\* io::Write::write on an open writer: the bytes go to the end of the file.
FsWrite ==
    \E id \in writers, b \in DataBytes :
        /\ Len(files[id].bytes) < MaxData
        /\ files' = [files EXCEPT ![id] = FileOf(@.bytes \o <<b>>)]
        /\ created' = [created EXCEPT ![id].bytes = @ \o <<b>>]
        /\ listed' = {}
        /\ last' = Op("write", id, "Ok", NoOpts)
        /\ UNCHANGED <<args, calls, entriesKind, others, refs, writers, output, rendered,
                       kvVars, cryptoVars>>

\* The writer is dropped, which closes the file.
FsDropWriter ==
    \E id \in writers :
        /\ writers' = writers \ {id}
        /\ listed' = {}
        /\ last' = Op("drop", id, "Ok", NoOpts)
        /\ UNCHANGED <<args, calls, entriesKind, files, others, refs, cliVars, kvVars, cryptoVars>>

\* Reference::reader on a reference the caller holds, read to the end.
FsReader ==
    \E id \in refs :
        LET r == FileReader(files, id)
        IN  /\ output' = r.bytes
            /\ listed' = {}
            /\ last' = Op("reader", id, r.res, NoOpts)
            /\ UNCHANGED <<args, calls, entriesKind, files, others, refs, writers, created, rendered, kvVars, cryptoVars>>

NextFs ==
    FsCreate \/ FsEntries \/ FsAddEntry \/ FsWriter \/ FsWrite \/ FsDropWriter
        \/ FsReader

SpecFs == InitFs /\ [][NextFs]_vars

\* ------------------------------------------------- storage API: claims

\* C1: add_entry(id) fails with AlreadyExists whenever an entry with
\* identifier id already exists, and leaves the entry's content unaltered.
C1_AddEntryRefusesExisting ==
    [][(last'.op = "add_entry" /\ files[last'.id].exists)
          => (last'.res = "AlreadyExists" /\ files' = files)]_vars

\* C2: writer() on a reference whose entry file already exists (empty or
\* not) fails with AlreadyExists and leaves every persisted byte unchanged.
C2_WriterCreateNew ==
    [][(last'.op = "writer" /\ files[last'.id].exists)
          => (last'.res = "AlreadyExists" /\ files' = files)]_vars

\* A writer() call was refused on an entry that holds bytes.
C2_Witness ==
    /\ last.op = "writer"
    /\ last.res = "AlreadyExists"
    /\ files[last.id].bytes # <<>>

\* ------------------------------------------------------ commands: claims

\* The lines a record reads as when every field is shown in clear.
ClearLines(s) ==
    [i \in 1..Len(s) |-> KeyDisplay(s[i].key) \o <<":", " ">> \o s[i].value.text]

HasNewline(t) == \E i \in 1..Len(t) : t[i] = NL

\* C3: write-once.  Whatever command runs next, successful or failing, an
\* entry whose create has completed keeps exactly the bytes that create
\* wrote and is still enumerated by entries().
C3_WriteOnce ==
    [][\A id \in Uuids :
          created[id].done =>
              /\ files'[id] = FileOf(created[id].bytes)
              /\ id \in FilesystemEntries(entriesKind', files', others').ids]_vars

\* A `new` that minted the identifier of a completed entry was refused.
C3_Witness ==
    /\ last.op = "new"
    /\ last.res = "AlreadyExists"
    /\ created[last.id].done
    /\ files[last.id] = FileOf(created[last.id].bytes)

\* C4: create-then-list fidelity.  A list with --all and reveal-secrets
\* renders, for every entry created by `new` from texts without newlines,
\* exactly name, secret and the given pairs, in order.
C4_CreateListFidelity ==
    (last.op = "list" /\ last.opts.all /\ last.opts.show_secrets) =>
        \A id \in Uuids :
            (/\ created[id].done
             /\ rendered[id].done
             /\ \A i \in 1..Len(created[id].store) :
                    ~HasNewline(created[id].store[i].value.text))
                => rendered[id].lines = ClearLines(created[id].store)

\* C9: with show_secrets false, list never writes the text of an entry's
\* password field.
C9_PasswordHidden ==
    (last.op = "list" /\ ~last.opts.show_secrets) =>
        \A id \in Uuids :
            (created[id].done /\ rendered[id].done) =>
                \A i \in 1..Len(created[id].store) :
                    LET p == created[id].store[i]
                    IN  (/\ p.key = WellKnownKey("Password")
                         /\ \E j \in 1..Len(p.value.text) : p.value.text[j] # "*")
                            => \A k \in 1..Len(rendered[id].lines) :
                                   rendered[id].lines[k]
                                       # WellKnown.Password \o <<":", " ">> \o p.value.text

\* C10: per-entry isolation.  A list that enumerated the entries renders
\* every entry that opens, decrypts and deserializes, whatever the others do.
C10_ListIsolation ==
    (last.op = "list" /\ FilesystemEntries(entriesKind, files, others).res = "Ok") =>
        \A id \in FilesystemEntries(entriesKind, files, others).ids :
            Deserialize(DecryptInput(files[id].bytes)).ok => rendered[id].done

\* ------------------------------------------- the transparent round trip

MaxHeaderRecipients == 3
MaxBodyLines == 2

HeaderRecipientTexts == {<<"A">>, <<"B">>}
BodyLines == {<<"x">>, <<>>, ARROW \o <<"y">>}

\* Bodies of whole lines, with or without a last line that has no newline.
Bodies ==
    {WriteLines(ls) \o t : ls \in SeqUpTo(BodyLines, MaxBodyLines), t \in {<<>>, <<"z">>}}

InitTransparent ==
    /\ IdleVault
    /\ last = Op("none", 0, "none", NoOpts)
    /\ IdleKv
    /\ recipients \in SeqUpTo(HeaderRecipientTexts, MaxHeaderRecipients)
    /\ body \in Bodies
    /\ ciphertext = <<>>
    /\ plaintext = <<>>

\* encrypt_output on an empty buffer, then the body written through the
\* Encrypted writer, which passes every write on.
Encrypt ==
    /\ last.op = "none"
    /\ ciphertext' = EncryptOutput(recipients) \o body
    /\ last' = Op("encrypt", 0, "Ok", NoOpts)
    /\ UNCHANGED <<args, calls, fsVars, cliVars, kvVars, recipients, body, plaintext>>

\* decrypt_input on the ciphertext, then the Decrypted reader read to the end.
Decrypt ==
    /\ last.op = "encrypt"
    /\ plaintext' = DecryptInput(ciphertext)
    /\ last' = Op("decrypt", 0, "Ok", NoOpts)
    /\ UNCHANGED <<args, calls, fsVars, cliVars, kvVars, recipients, body, ciphertext>>

NextTransparent == Encrypt \/ Decrypt

SpecTransparent == InitTransparent /\ [][NextTransparent]_vars

\* C5: transparent round trip.  Decrypting what encrypt_output(recipients)
\* followed by the body wrote yields exactly the body, for every recipient
\* list and every body.
C5_TransparentRoundTrip == last.op = "decrypt" => plaintext = body

\* ------------------------------------------------ the record round trip

MaxPairs == 2

KvKeys ==
    {WellKnownKey("Name"), OtherKey(<<"k">>), OtherKey(<<"k", "!">>),
     OtherKey(WellKnown.Name)}
KvTexts == {<<>>, <<"v">>, <<"a", "=", "b">>, <<"v", CR>>, <<"x", NL, "y">>}
KvPairs ==
    {KeyValuePair(k, [sensitive |-> b, text |-> t]) :
        k \in KvKeys, b \in BOOLEAN, t \in KvTexts}

InitKv ==
    /\ IdleVault
    /\ last = Op("none", 0, "none", NoOpts)
    /\ IdleCrypto
    /\ store \in SeqUpTo(KvPairs, MaxPairs)
    /\ buf = <<>>
    /\ decoded = [ok |-> FALSE, err |-> "none", store |-> <<>>]
    /\ shown = <<>>

\* KvStore::serialize into an empty buffer
SerializeStore ==
    /\ last.op = "none"
    /\ buf' = Serialize(store)
    /\ last' = Op("serialize", 0, "Ok", NoOpts)
    /\ UNCHANGED <<args, calls, fsVars, cliVars, cryptoVars, store, decoded, shown>>

\* KvStore::deserialize of the buffer
DeserializeBuf ==
    /\ last.op = "serialize"
    /\ decoded' = Deserialize(buf)
    /\ last' = Op("deserialize", 0, decoded'.err, NoOpts)
    /\ UNCHANGED <<args, calls, fsVars, cliVars, cryptoVars, store, buf, shown>>

NextKv == SerializeStore \/ DeserializeBuf

SpecKv == InitKv /\ [][NextKv]_vars

Contains(t, c) == \E i \in 1..Len(t) : t[i] = c

\* Two records agree field for field: key text, value text, sensitivity, order.
SameRecord(a, b) ==
    /\ Len(a) = Len(b)
    /\ \A i \in 1..Len(a) :
          /\ KeyDisplay(a[i].key) = KeyDisplay(b[i].key)
          /\ a[i].value = b[i].value

\* The records the round-trip claim is about: no `=` and no newline in a key
\* text, no newline in a value.
RoundTripDomain(s) ==
    \A i \in 1..Len(s) :
        /\ ~Contains(KeyDisplay(s[i].key), DELIMETER)
        /\ ~Contains(KeyDisplay(s[i].key), NL)
        /\ ~Contains(s[i].value.text, NL)

\* C6 as stated: every record of the domain decodes back to itself.
C6_RecordRoundTrip ==
    (last.op = "deserialize" /\ RoundTripDomain(store))
        => (decoded.ok /\ SameRecord(decoded.store, store))

\* C6, amended: record round trip for the records of the domain in which no
\* insensitive field has a key text ending in `!` and no value ends with a
\* carriage return.
C6_RecordRoundTripAmended ==
    (/\ last.op = "deserialize"
     /\ RoundTripDomain(store)
     /\ \A i \in 1..Len(store) :
           /\ store[i].value.sensitive \/ ~EndsWith(KeyDisplay(store[i].key), SENSITIVITY)
           /\ ~EndsWith(store[i].value.text, CR))
        => (decoded.ok /\ SameRecord(decoded.store, store))

\* A record with a duplicate key, a sensitive field and a value holding `=`
\* was encoded and decoded.
C6_Witness ==
    /\ last.op = "deserialize"
    /\ decoded.ok
    /\ Len(store) = 2
    /\ store[1].key = store[2].key
    /\ store[1].value.sensitive
    /\ Contains(store[2].value.text, DELIMETER)
    /\ SameRecord(decoded.store, store)

\* ------------------------------------------------------- the display

MaxFields == 2
MaxValueLen == 18

DisplayKeys == {WellKnownKey("Name"), WellKnownKey("Password")}
DisplayLens == {0, 1} \cup (REDACT_MAX..MaxValueLen)
DisplayTexts ==
    {Rep("a", n) : n \in DisplayLens} \cup {Rep("b", n) : n \in {1, REDACT_MAX + 1}}
DisplayPairs ==
    {KeyValuePair(k, [sensitive |-> b, text |-> t]) :
        k \in DisplayKeys, b \in BOOLEAN, t \in DisplayTexts}

\* One call of KvStore::display: its options and its show_secrets argument.
DisplayCall(opts, show_secrets) ==
    [show_all |-> opts.show_all, enabled_keys |-> opts.enabled_keys,
     show_secrets |-> show_secrets]

InitDisplay ==
    /\ IdleVault
    /\ last = Op("none", 0, "none", DisplayCall(DisplayOptions(FALSE, {}), FALSE))
    /\ IdleCrypto
    /\ store \in SeqUpTo(DisplayPairs, MaxFields)
    /\ buf = <<>>
    /\ decoded = [ok |-> FALSE, err |-> "none", store |-> <<>>]
    /\ shown = <<>>

\* KvStore::display into an empty writer
Display ==
    /\ last.op = "none"
    /\ \E show_all \in BOOLEAN, enabled_keys \in SUBSET DisplayKeys,
          show_secrets \in BOOLEAN :
          LET opts == DisplayOptions(show_all, enabled_keys)
          IN  /\ shown' = KvStoreDisplay(store, opts, show_secrets)
              /\ last' = Op("display", 0, "Ok", DisplayCall(opts, show_secrets))
    /\ UNCHANGED <<args, calls, fsVars, cliVars, cryptoVars, store, buf, decoded>>

\* The caller drops the writer and the record.
DisplayDone ==
    /\ last.op = "display"
    /\ shown' = <<>>
    /\ last' = Op("none", 0, "none", DisplayCall(DisplayOptions(FALSE, {}), FALSE))
    /\ UNCHANGED <<args, calls, fsVars, cliVars, cryptoVars, store, buf, decoded>>

NextDisplay == Display \/ DisplayDone

SpecDisplay == InitDisplay /\ [][NextDisplay]_vars

\* The fields of a record that a display call writes, in record order.
SelectedFields(s, opts) == SelectSeq(s, LAMBDA p : Selected(p.key, opts))

\* The value column of a displayed line: what follows the key text and ": ".
ValueColumn(line, key) == SubSeq(line, Len(KeyDisplay(key)) + 3, Len(line))

\* C7: redaction.  With show_secrets = false every sensitive value that is
\* displayed is rendered as exactly min(len(v), 16) characters, all of them
\* asterisks.
C7_Redaction ==
    (last.op = "display" /\ ~last.opts.show_secrets) =>
        LET fields == SelectedFields(store, last.opts)
        IN  /\ Len(shown) = Len(fields)
            /\ \A n \in 1..Len(fields) :
                  fields[n].value.sensitive =>
                      LET v == ValueColumn(shown[n], fields[n].key)
                      IN  /\ Len(v) = Min(Len(fields[n].value.text), 16)
                          /\ \A j \in 1..Len(v) : v[j] = "*"

\* An empty secret and a secret longer than the cap were displayed redacted.
C7_Witness ==
    /\ last.op = "display"
    /\ ~last.opts.show_secrets
    /\ Len(store) = 2
    /\ Len(shown) = 2
    /\ store[1].value.sensitive /\ store[1].value.text = <<>>
    /\ store[2].value.sensitive /\ Len(store[2].value.text) = 18
    /\ Len(ValueColumn(shown[1], store[1].key)) = 0
    /\ Len(ValueColumn(shown[2], store[2].key)) = 16

\* The records that differ from s only in the text of sensitive values, each
\* differing value keeping its min(length, 16).
RECURSIVE SecretVariants(_)
SecretVariants(s) ==
    IF s = <<>> THEN {<<>>}
    ELSE {<<q>> \o r :
            q \in {q \in DisplayPairs :
                     /\ q.key = Head(s).key
                     /\ q.value.sensitive = Head(s).value.sensitive
                     /\ ~Head(s).value.sensitive => q.value.text = Head(s).value.text
                     /\ Min(Len(q.value.text), 16) = Min(Len(Head(s).value.text), 16)},
            r \in SecretVariants(Tail(s))}

\* C8: redaction non-interference.  With show_secrets = false and any display
\* options, two records that differ only in the text of sensitive values of
\* the same min(length, 16) are displayed byte for byte alike.
C8_NonInterference ==
    (last.op = "display" /\ ~last.opts.show_secrets) =>
        \A t \in SecretVariants(store) :
            WriteLines(KvStoreDisplay(t, last.opts, FALSE)) = WriteLines(shown)

\* A record with a secret of 17 bytes was displayed with show_all and no
\* show_secrets, and a record with an 18-byte secret in its place is displayed
\* the same.
C8_Witness ==
    /\ last.op = "display"
    /\ ~last.opts.show_secrets
    /\ last.opts.show_all
    /\ \E i \in 1..Len(store) :
          /\ store[i].value.sensitive
          /\ Len(store[i].value.text) = 17
          /\ \E t \in SecretVariants(store) :
                /\ Len(t[i].value.text) = 18
                /\ KvStoreDisplay(t, last.opts, FALSE) = shown
    /\ shown # <<>>

\* ------------------------------------------- commands: failing creates

\* C11: a create that fails after minting its identifier leaves no empty or
\* partially written entry file reachable through entries().
C11_NoPartialEntry ==
    (/\ last.op = "new"
     /\ last.res \notin {"Ok", "MissingDelimeter"}
     /\ ~created[last.id].done)
        => last.id \notin FilesystemEntries(entriesKind, files, others).ids

\* C12: every failure of a fallible step of create and list is returned to
\* the caller as an error value, none ends in a panic.
C12_ErrorsReturned ==
    last.op \in {"new", "list"} => last.res # "Panic"

\* ------------------------------------------ storage API: more claims

\* C13: create on a vault whose entries directory exists fails with
\* AlreadyExists and changes nothing on disk; the second of two consecutive
\* creates always fails; create succeeds only on a root not yet initialized.
C13_CreateRefusesInitialized ==
    [][last'.op = "create" =>
          /\ entriesKind = "dir" =>
                (last'.res = "AlreadyExists" /\ entriesKind' = "dir" /\ files' = files)
          /\ last.op = "create" => last'.res # "Ok"
          /\ last'.res = "Ok" => entriesKind = "absent"]_vars

\* A create was refused on a vault that holds an entry with bytes.
C13_Witness ==
    /\ last.op = "create"
    /\ last.res = "AlreadyExists"
    /\ entriesKind = "dir"
    /\ \E id \in Uuids : files[id].exists /\ files[id].bytes # <<>>

\* --------------------------------------- enumerating an existing vault

\* A vault directory as Filesystem::new may find it: entry files with or
\* without bytes, and any other children beside them.
InitEnum ==
    /\ entriesKind = "dir"
    /\ files \in [Uuids -> {NoFile, FileOf(<<>>), FileOf(<<"a">>)}]
    /\ others \in SUBSET ForeignChildren
    /\ listed = {}
    /\ args = NoArgs
    /\ calls = <<>>
    /\ refs = {}
    /\ writers = {}
    /\ output = <<>>
    /\ created = [id \in Uuids |-> NoEntry]
    /\ rendered = [id \in Uuids |-> NotRendered]
    /\ last = Op("none", 0, "none", NoOpts)
    /\ IdleKv
    /\ IdleCrypto

NextEnum == FsEntries \/ FsReader

SpecEnum == InitEnum /\ [][NextEnum]_vars

\* C14: enumeration tolerance.  entries() returns Ok and exactly the entry
\* files, whatever subdirectories, files with another extension and .age
\* files with a stem that is no identifier lie beside them.
C14_EnumerationTolerance ==
    [][last'.op = "entries" =>
          /\ last'.res = "Ok"
          /\ listed' = {id \in Uuids : files[id].exists}]_vars

\* An enumeration of a vault holding an entry file, a subdirectory, a file
\* with another extension and an .age file with a bad stem returned the entry.
C14_Witness ==
    /\ last.op = "entries"
    /\ last.res = "Ok"
    /\ \E c \in others : c.is_dir
    /\ \E c \in others : ~c.is_dir /\ Extension(c.name) # AGE
    /\ \E c \in others :
          ~c.is_dir /\ Extension(c.name) = AGE /\ UuidFromStr(FileStem(c.name)) = 0
    /\ listed = {1}
    /\ files[1].exists /\ ~files[2].exists

\* C15: storage round trip.  In an initialized vault, once identifiers have
\* been stored through add_entry, writer() and writes, entries() returns
\* exactly those identifiers, and reader() on each yields exactly the bytes
\* written for it.
C15_StorageRoundTrip ==
    /\ (last.op = "entries" /\ entriesKind = "dir") =>
          /\ last.res = "Ok"
          /\ listed = {id \in Uuids : created[id].done}
          /\ \A id \in listed :
                FileReader(files, id) = [res |-> "Ok", bytes |-> created[id].bytes]
    /\ (last.op = "reader" /\ created[last.id].done) =>
          (last.res = "Ok" /\ output = created[last.id].bytes)

\* Two identifiers were stored with different bytes and then enumerated.
C15_Witness ==
    /\ last.op = "entries"
    /\ last.res = "Ok"
    /\ listed = Uuids
    /\ created[1].bytes # <<>>
    /\ created[1].bytes # created[2].bytes

\* ------------------------------------------------- the record `new` builds

MaxNewKeys == 2

NewNames == {<<"n">>, <<>>}
NewSecrets == {<<"s">>, <<"s", "=", "!">>}
NewKeyTexts ==
    {<<"u", "r", "l", "=", "u">>,
     <<"n", "a", "m", "e", "=", "z">>,
     <<"s", "e", "c", "r", "e", "t", "=", "q">>,
     <<"p", "i", "n", "!", "=", "1">>}

\* An initialized, empty vault, and the arguments of one `ciphey new`.
InitNew ==
    /\ entriesKind = "dir"
    /\ files = [id \in Uuids |-> NoFile]
    /\ others = {}
    /\ listed = {}
    /\ refs = {}
    /\ writers = {}
    /\ args \in {NewArgs(rs, name, secret, keys) :
                    rs \in {<<>>, <<<<"A">>, <<"A">>>>}, name \in NewNames,
                    secret \in NewSecrets, keys \in SeqUpTo(NewKeyTexts, MaxNewKeys)}
    /\ calls = <<>>
    /\ output = <<>>
    /\ created = [id \in Uuids |-> NoEntry]
    /\ rendered = [id \in Uuids |-> NotRendered]
    /\ last = Op("none", 0, "none", NoOpts)
    /\ IdleKv
    /\ IdleCrypto

\* `ciphey new` with these arguments; no write fails, but the name or the
\* secret may be left out and the prompt for it may fail.
NewRun ==
    /\ last.op = "none"
    /\ \E uuid \in Uuids, fault \in {NoFault, [at |-> "name", after |-> 0], [at |-> "secret", after |-> 0]} :
        LET r == New(entriesKind, files, args.recipient, args.name, args.secret,
                     args.key, uuid, fault)
        IN  /\ files' = r.files
            /\ last' = Op("new", uuid, r.res, NoOpts)
            /\ output' = r.output
            /\ created' =
                   IF r.completed
                   THEN [created EXCEPT ![uuid] =
                            [done |-> TRUE, store |-> r.store,
                             recipients |-> args.recipient,
                             bytes |-> r.files[uuid].bytes]]
                   ELSE created
            /\ calls' = r.calls
            /\ UNCHANGED <<args, entriesKind, others, listed, refs, writers,
                           rendered, kvVars, cryptoVars>>

\* main returns; the next run is given the same arguments.
NewExit ==
    /\ last.op = "new"
    /\ last' = Op("none", 0, "none", NoOpts)
    /\ output' = <<>>
    /\ calls' = <<>>
    /\ UNCHANGED <<args, fsVars, created, rendered, kvVars, cryptoVars>>

NextNew == NewRun \/ NewExit

SpecNew == InitNew /\ [][NextNew]_vars

\* C16: every record `new` builds has the name first, insensitive, the secret
\* second, sensitive, and then the supplied pairs in the order given, also
\* when a supplied pair uses the key name or secret.
C16_NameSecretFirst ==
    (last.op = "new" /\ last.res = "Ok") =>
        LET s == created[last.id].store
        IN  /\ Len(s) = Len(args.key) + 2
            /\ KeyDisplay(s[1].key) = <<"n", "a", "m", "e">>
            /\ s[1].value = [sensitive |-> FALSE, text |-> args.name]
            /\ KeyDisplay(s[2].key) = <<"s", "e", "c", "r", "e", "t">>
            /\ s[2].value = [sensitive |-> TRUE, text |-> args.secret]
            /\ \A i \in 1..Len(args.key) :
                  s[i + 2] = KeyValuePairFromStr(args.key[i]).pair

\* A record was built from a pair keyed secret followed by a pair keyed name.
C16_Witness ==
    /\ last.op = "new"
    /\ last.res = "Ok"
    /\ Len(args.key) = 2
    /\ KeyDisplay(created[last.id].store[3].key) = <<"s", "e", "c", "r", "e", "t">>
    /\ KeyDisplay(created[last.id].store[4].key) = <<"n", "a", "m", "e">>

\* ------------------------------------------------ the display: lines

\* The fields the policy of the displayed call selects, in record order.
PolicyFields ==
    SelectSeq(store, LAMBDA p : last.opts.show_all \/ p.key \in last.opts.enabled_keys)

\* The line of a field whose value column is v.
FieldLine(p, v) == KeyDisplay(p.key) \o <<":", " ">> \o v

\* A text that its own redaction equals: at most 16 asterisks, or nothing.
OwnRedaction(t) == Len(t) <= 16 /\ \A j \in 1..Len(t) : t[j] = "*"

\* A line that opens with the field's key and ": ".
KeyedLine(line, p) ==
    LET k == KeyDisplay(p.key) \o <<":", " ">>
    IN  Len(line) >= Len(k) /\ SubSeq(line, 1, Len(k)) = k

\* C17 as stated: one `key: value` line per selected field, in record order,
\* none for the others; an insensitive value verbatim, a sensitive value
\* verbatim if and only if show_secrets is true.
C17_DisplayVerbatimIff ==
    last.op = "display" =>
        /\ Len(shown) = Len(PolicyFields)
        /\ \A n \in 1..Len(PolicyFields) :
              LET p == PolicyFields[n]
              IN  /\ KeyedLine(shown[n], p)
                  /\ ~p.value.sensitive => shown[n] = FieldLine(p, p.value.text)
                  /\ p.value.sensitive =>
                        (shown[n] = FieldLine(p, p.value.text) <=> last.opts.show_secrets)

\* C17, amended: one `key: value` line per selected field, in record order,
\* none for the others; an insensitive value verbatim; a sensitive value
\* verbatim if show_secrets is true, and otherwise not verbatim unless the
\* value is its own redaction (empty, or at most 16 asterisks).
C17_DisplayLines ==
    last.op = "display" =>
        /\ Len(shown) = Len(PolicyFields)
        /\ \A n \in 1..Len(PolicyFields) :
              LET p == PolicyFields[n]
              IN  /\ KeyedLine(shown[n], p)
                  /\ ~p.value.sensitive => shown[n] = FieldLine(p, p.value.text)
                  /\ (p.value.sensitive /\ last.opts.show_secrets)
                        => shown[n] = FieldLine(p, p.value.text)
                  /\ (p.value.sensitive /\ ~last.opts.show_secrets
                      /\ ~OwnRedaction(p.value.text))
                        => shown[n] # FieldLine(p, p.value.text)

\* A record of a selected secret and an unselected field was displayed with
\* and without show_secrets: one line, the secret's.
C17_Witness ==
    /\ last.op = "display"
    /\ ~last.opts.show_all
    /\ Len(store) = 2
    /\ store[1].key \notin last.opts.enabled_keys
    /\ store[2].key \in last.opts.enabled_keys
    /\ store[2].value.sensitive
    /\ store[2].value.text # <<>>
    /\ Len(shown) = 1
    /\ KeyedLine(shown[1], store[2])

\* ------------------------------------------------ commands: list policy

\* The record list reads from the entry file of id.
ReadRecord(id) == Deserialize(DecryptInput(files[id].bytes)).store

\* The policy of the list flags for a field keyed by the text k.
ListPolicy(k, opts) ==
    \/ opts.all
    \/ (~opts.no_default
        /\ k \in {<<"n", "a", "m", "e">>, <<"u", "s", "e", "r", "n", "a", "m", "e">>,
                  <<"e", "m", "a", "i", "l">>, <<"u", "r", "l">>})
    \/ k \in opts.display

\* C18: list renders a field of an entry if and only if --all is set, or its
\* key is a default key and --no-default is not set, or its key was named by
\* --display: the rendered lines are, in order, those of the fields the
\* policy admits.
C18_ListPolicy ==
    last.op = "list" =>
        \A id \in Uuids :
            rendered[id].done =>
                LET fields == SelectSeq(ReadRecord(id),
                                        LAMBDA p : ListPolicy(KeyDisplay(p.key), last.opts))
                IN  /\ Len(rendered[id].lines) = Len(fields)
                    /\ \A n \in 1..Len(fields) : KeyedLine(rendered[id].lines[n], fields[n])

\* A list without flags rendered the name of an entry that has a secret and
\* a password, and neither of those.
C18_Witness ==
    /\ last.op = "list"
    /\ last.opts = ListOpts(FALSE, FALSE, {}, FALSE, FALSE)
    /\ \E id \in Uuids :
          /\ rendered[id].done
          /\ Len(ReadRecord(id)) = 3
          /\ KeyDisplay(ReadRecord(id)[2].key) = <<"s", "e", "c", "r", "e", "t">>
          /\ ReadRecord(id)[3].key = WellKnownKey("Password")
          /\ rendered[id].lines = <<<<"n", "a", "m", "e", ":", " ", "n">>>>

\* ------------------------------------------------ transparent framing

\* `-> r` and a newline for each recipient in order, `---` and a newline,
\* then the body.
RECURSIVE Framed(_, _)
Framed(rs, b) ==
    IF rs = <<>> THEN <<"-", "-", "-", "\n">> \o b
    ELSE <<"-", ">", " ">> \o Head(rs) \o <<"\n">> \o Framed(Tail(rs), b)

\* C19: transparent framing.  The bytes that reach the wrapped stream are one
\* `-> r` line per recipient in the given order, the `---` line, then the
\* written bytes unchanged; with no recipient, the separator line and the body.
C19_Framing ==
    last.op \in {"encrypt", "decrypt"} => ciphertext = Framed(recipients, body)

\* Three recipients, not all alike, and a body were written.
C19_Witness ==
    /\ last.op = "encrypt"
    /\ Len(recipients) = 3
    /\ recipients[1] # recipients[2]
    /\ body # <<>>
    /\ ciphertext = Framed(recipients, body)

\* ------------------------------------------------ the header scan

MaxStreamLines == 3

StreamLines == {ARROW \o <<"A">>, SEPARATOR, <<"x">>, <<>>}

\* Input streams of whole lines, with or without an unterminated last line.
Streams ==
    {WriteLines(ls) \o t : ls \in SeqUpTo(StreamLines, MaxStreamLines),
                           t \in {<<>>, <<"z">>, ARROW \o <<"B">>}}

InitStream ==
    /\ IdleVault
    /\ last = Op("none", 0, "none", NoOpts)
    /\ IdleKv
    /\ recipients = <<>>
    /\ body = <<>>
    /\ ciphertext \in Streams
    /\ plaintext = <<>>

\* decrypt_input on the stream, then the Decrypted reader read to the end.
DecryptStream ==
    /\ last.op = "none"
    /\ plaintext' = DecryptInput(ciphertext)
    /\ last' = Op("decrypt", 0, "Ok", NoOpts)
    /\ UNCHANGED <<args, calls, fsVars, cliVars, kvVars, recipients, body, ciphertext>>

\* The reader is dropped; the stream can be opened again.
CloseStream ==
    /\ last.op = "decrypt"
    /\ plaintext' = <<>>
    /\ last' = Op("none", 0, "none", NoOpts)
    /\ UNCHANGED <<args, calls, fsVars, cliVars, kvVars, recipients, body, ciphertext>>

NextStream == DecryptStream \/ CloseStream

SpecStream == InitStream /\ [][NextStream]_vars

\* What is left of b behind its first line.
SkipLine(b) ==
    IF \E i \in 1..Len(b) : b[i] = "\n"
    THEN SubSeq(b, (CHOOSE i \in 1..Len(b) :
                        b[i] = "\n" /\ \A j \in 1..(i - 1) : b[j] # "\n") + 1, Len(b))
    ELSE <<>>

ArrowFirst(b) == Len(b) >= 3 /\ SubSeq(b, 1, 3) = <<"-", ">", " ">>

\* What is left of b behind its leading run of `-> ` lines and the one line
\* that follows the run.
RECURSIVE SkipHeader(_)
SkipHeader(b) == IF ArrowFirst(b) THEN SkipHeader(SkipLine(b)) ELSE SkipLine(b)

\* C20: decrypt_input consumes exactly the maximal run of leading lines that
\* start with `-> ` and the single line that follows the run, and exposes
\* every byte behind that line unchanged.
C20_HeaderScan ==
    last.op = "decrypt" => plaintext = SkipHeader(ciphertext)

\* ------------------------------------------------ decoding one line

MaxLineLen == 4

\* The lines handed to the parser: every text of up to MaxLineLen characters
\* over a letter, the delimiter and the sensitivity marker, and lines keyed
\* by a well-known key.
LineTexts ==
    StrUpTo({"k", DELIMETER, SENSITIVITY}, MaxLineLen)
        \cup {WellKnown.Name \o t : t \in {<<"=", "x">>, <<"!", "=", "x">>, <<"!">>}}

InitLine ==
    /\ IdleVault
    /\ last = Op("none", 0, "none", NoOpts)
    /\ IdleCrypto
    /\ store = <<>>
    /\ buf \in LineTexts
    /\ decoded = [ok |-> FALSE, err |-> "none", store |-> <<>>]
    /\ shown = <<>>

\* KeyValuePair::from_str on the line
ParseLine ==
    LET r == KeyValuePairFromStr(buf)
    IN  /\ last.op = "none"
        /\ decoded' = [ok |-> r.ok, err |-> r.err,
                       store |-> IF r.ok THEN <<r.pair>> ELSE <<>>]
        /\ last' = Op("from_str", 0, r.err, NoOpts)
        /\ UNCHANGED <<args, calls, fsVars, cliVars, cryptoVars, store, buf, shown>>

NextLine == ParseLine

SpecLine == InitLine /\ [][NextLine]_vars

\* C21: a line with at least one `=` decodes, split at its first `=`: the key
\* is the text before it less at most one trailing `!`, the field is sensitive
\* if and only if that `!` was there, and the value is everything behind the
\* first `=`, further `=` included.
C21_SplitAtFirst ==
    (last.op = "from_str" /\ \E i \in 1..Len(buf) : buf[i] = "=") =>
        LET i == CHOOSE i \in 1..Len(buf) :
                     buf[i] = "=" /\ \A j \in 1..(i - 1) : buf[j] # "="
            before == SubSeq(buf, 1, i - 1)
            bang == Len(before) > 0 /\ before[Len(before)] = "!"
        IN  /\ decoded.ok
            /\ Len(decoded.store) = 1
            /\ KeyDisplay(decoded.store[1].key) =
                   (IF bang THEN SubSeq(before, 1, Len(before) - 1) ELSE before)
            /\ decoded.store[1].value.sensitive = bang
            /\ decoded.store[1].value.text = SubSeq(buf, i + 1, Len(buf))

\* The line `k!!=` was decoded: key `k!`, sensitive, empty value.
C21_Witness ==
    /\ last.op = "from_str"
    /\ buf = <<"k", "!", "!", "=">>
    /\ decoded.ok
    /\ KeyDisplay(decoded.store[1].key) = <<"k", "!">>
    /\ decoded.store[1].value.sensitive

\* ------------------------------------------------ decoding an input

MaxInputLen == 4

\* The inputs handed to the decoder: every text of up to MaxInputLen
\* characters over a letter, the delimiter, the newline and the carriage
\* return.
InputTexts == StrUpTo({"k", DELIMETER, NL, CR}, MaxInputLen)

InitInput ==
    /\ IdleVault
    /\ last = Op("none", 0, "none", NoOpts)
    /\ IdleCrypto
    /\ store = <<>>
    /\ buf \in InputTexts
    /\ decoded = [ok |-> FALSE, err |-> "none", store |-> <<>>]
    /\ shown = <<>>

\* KvStore::deserialize of the input
DecodeInput ==
    /\ last.op = "none"
    /\ decoded' = Deserialize(buf)
    /\ last' = Op("deserialize", 0, decoded'.err, NoOpts)
    /\ UNCHANGED <<args, calls, fsVars, cliVars, cryptoVars, store, buf, shown>>

NextInput == DecodeInput

SpecInput == InitInput /\ [][NextInput]_vars

\* Some line of b, an empty one included, holds no `=`: a line starts at the
\* first byte and behind every newline, and ends at the next newline.
LineWithoutDelimiter(b) ==
    \E k \in 1..Len(b) :
        /\ k = 1 \/ b[k - 1] = "\n"
        /\ \A j \in k..Len(b) : b[j] = "=" => \E m \in k..(j - 1) : b[m] = "\n"

\* C22: deserialize returns MissingDelimeter and no record at all whenever
\* some line of the input, an empty one included, holds no `=`; it returns a
\* record only when every line holds the delimiter, and then one field a line.
C22_MissingDelimiterAborts ==
    last.op = "deserialize" =>
        IF LineWithoutDelimiter(buf)
        THEN ~decoded.ok /\ decoded.err = "MissingDelimeter" /\ decoded.store = <<>>
        ELSE /\ decoded.ok
             /\ Len(decoded.store) =
                    Cardinality({k \in 1..Len(buf) : k = 1 \/ buf[k - 1] = "\n"})

\* An input whose first line decodes and whose second line is empty was
\* refused.
C22_Witness ==
    /\ last.op = "deserialize"
    /\ buf = <<"k", "=", "\n", "\n">>
    /\ ~decoded.ok
    /\ decoded.err = "MissingDelimeter"

\* ------------------------------------------------ parsing a key

MaxKeyLen == 4

\* The texts parsed as keys: every text of up to MaxKeyLen characters over
\* the letters of `name`, the well-known texts, and texts close to them.
KeyTexts ==
    StrUpTo({"n", "a", "m", "e"}, MaxKeyLen)
        \cup {WellKnown[tag] : tag \in DOMAIN WellKnown}
        \cup {<<"N", "a", "m", "e">>, <<"n", "a", "m", "e", "s">>,
              <<"n", "a", "m", "e", "!">>, <<" ", "u", "r", "l">>,
              <<"O", "t", "h", "e", "r">>, <<"u", "r", "l", "=">>}

InitKey ==
    /\ IdleVault
    /\ last = Op("none", 0, "none", NoOpts)
    /\ IdleCrypto
    /\ store = <<>>
    /\ buf \in KeyTexts
    /\ decoded = [ok |-> FALSE, err |-> "none", store |-> <<>>]
    /\ shown = <<>>

\* Key::from_str on the text, and the parsed key formatted with Display; the
\* key is kept as the key of a field without value.
ParseKey ==
    LET key == KeyFromStr(buf)
    IN  /\ last.op = "none"
        /\ store' = <<KeyValuePair(key, Insensitive(<<>>))>>
        /\ shown' = <<KeyDisplay(key)>>
        /\ last' = Op("key", 0, "Ok", NoOpts)
        /\ UNCHANGED <<args, calls, fsVars, cliVars, cryptoVars, buf, decoded>>

NextKey == ParseKey

SpecKey == InitKey /\ [][NextKey]_vars

\* C23: key parsing is total and text-preserving.  Parsing any text t yields
\* the well-known variant if t is one of name, username, email, password,
\* url, notes, and Other(t) otherwise; displaying the parsed key gives t.
C23_KeyParsing ==
    last.op = "key" =>
        /\ last.res = "Ok"
        /\ store[1].key =
              (CASE buf = <<"n", "a", "m", "e">> -> [tag |-> "Name", text |-> <<>>]
                 [] buf = <<"u", "s", "e", "r", "n", "a", "m", "e">>
                        -> [tag |-> "Username", text |-> <<>>]
                 [] buf = <<"e", "m", "a", "i", "l">> -> [tag |-> "Email", text |-> <<>>]
                 [] buf = <<"p", "a", "s", "s", "w", "o", "r", "d">>
                        -> [tag |-> "Password", text |-> <<>>]
                 [] buf = <<"u", "r", "l">> -> [tag |-> "Url", text |-> <<>>]
                 [] buf = <<"n", "o", "t", "e", "s">> -> [tag |-> "Notes", text |-> <<>>]
                 [] OTHER -> [tag |-> "Other", text |-> buf])
        /\ shown = <<buf>>

\* The text `notes` was parsed to the well-known variant and displayed.
C23_Witness ==
    /\ last.op = "key"
    /\ buf = <<"n", "o", "t", "e", "s">>
    /\ store[1].key.tag = "Notes"
    /\ shown = <<buf>>

\* ------------------------------------------------ duplicate keys

MaxDupFields == 3

\* The fields of the records: two keys, two texts, sensitive or not.
DupPairs ==
    {KeyValuePair(k, [sensitive |-> b, text |-> t]) :
        k \in {WellKnownKey("Name"), OtherKey(<<"k">>)}, b \in BOOLEAN,
        t \in {<<"a">>, <<"b">>}}

\* A record of up to MaxDupFields fields, as KvStore::new takes it.
InitDup ==
    /\ IdleVault
    /\ last = Op("none", 0, "none", NoOpts)
    /\ IdleCrypto
    /\ store \in SeqUpTo(DupPairs, MaxDupFields)
    /\ buf = <<>>
    /\ decoded = [ok |-> FALSE, err |-> "none", store |-> <<>>]
    /\ shown = <<>>

\* KvStore::display of the decoded record into an empty writer
DisplayDecoded ==
    /\ last.op = "deserialize"
    /\ decoded.ok
    /\ \E show_all \in BOOLEAN, enabled_keys \in SUBSET {p.key : p \in DupPairs},
          show_secrets \in BOOLEAN :
          LET opts == DisplayOptions(show_all, enabled_keys)
          IN  /\ shown' = KvStoreDisplay(decoded.store, opts, show_secrets)
              /\ last' = Op("display", 0, "Ok", DisplayCall(opts, show_secrets))
    /\ UNCHANGED <<args, calls, fsVars, cliVars, cryptoVars, store, buf, decoded>>

NextDup == SerializeStore \/ DeserializeBuf \/ DisplayDecoded

SpecDup == InitDup /\ [][NextDup]_vars

\* Encode writes a line for every field, decode gives every field back, and
\* render writes a line for every field the policy selects.
DuplicatesKept ==
    /\ last.op = "serialize" =>
          Cardinality({i \in 1..Len(buf) : buf[i] = "\n"}) = Len(store)
    /\ last.op \in {"deserialize", "display"} =>
          (decoded.ok /\ SameRecord(decoded.store, store))
    /\ last.op = "display" =>
          /\ Len(shown) = Len(PolicyFields)
          /\ \A n \in 1..Len(PolicyFields) : KeyedLine(shown[n], PolicyFields[n])

\* The positions of the fields of the record that have the key of field i.
SameKey(i) == {j \in 1..Len(store) : store[j].key = store[i].key}

\* The lines of a render in clear that open with the key of field i.
LinesKeyed(i) == SelectSeq(shown, LAMBDA line : KeyedLine(line, store[i]))

\* C24 as stated: no field of a record with duplicate keys is dropped or
\* merged by encode, decode or render, and of the fields with one key the one
\* inserted last is displayed first.
C24_DuplicatesLastFirst ==
    /\ DuplicatesKept
    /\ (last.op = "display" /\ last.opts.show_all /\ last.opts.show_secrets) =>
          \A i \in 1..Len(store) :
              LET latest == CHOOSE j \in SameKey(i) : \A m \in SameKey(i) : m <= j
              IN  LinesKeyed(i)[1] = FieldLine(store[latest], store[latest].value.text)

\* C24, amended: no field of a record with duplicate keys is dropped or
\* merged by encode, decode or render, and the fields with one key are
\* displayed in record order, the one at the earliest position first.
C24_DuplicatesInOrder ==
    /\ DuplicatesKept
    /\ (last.op = "display" /\ last.opts.show_all /\ last.opts.show_secrets) =>
          \A i \in 1..Len(store) :
              LET keyed == SelectSeq(store, LAMBDA p : p.key = store[i].key)
              IN  LinesKeyed(i) =
                      [n \in 1..Len(keyed) |-> FieldLine(keyed[n], keyed[n].value.text)]

\* A record with three fields of one key, the first and the last with
\* different values, went through encode, decode and render: three lines,
\* the first field's first.
C24_Witness ==
    /\ last.op = "display"
    /\ last.opts.show_all /\ last.opts.show_secrets
    /\ Len(store) = 3
    /\ SameKey(1) = {1, 2, 3}
    /\ store[1].value.text # store[3].value.text
    /\ Len(shown) = 3
    /\ shown[1] = FieldLine(store[1], store[1].value.text)
    /\ shown[3] = FieldLine(store[3], store[3].value.text)

\* ------------------------------------------------ commands: the sink

\* C25: every `new` that returns success has finalized or closed its
\* encrypted writer behind the last record line and before the success
\* message: the message is never written for a writer not finalized.
C25_SinkFinalized ==
    (last.op = "new" /\ last.res = "Ok") =>
        \E i \in 1..Len(calls) :
            /\ calls[i] \in {"finish", "flush", "close", "drop"}
            /\ \A j \in 1..Len(calls) : calls[j] = "writeln" => j < i
            /\ \A j \in 1..Len(calls) : calls[j] = "message" => i < j

\* ------------------------------------ storage API: the missing directory

\* C26: add_entry returns an error whenever the entries directory is not
\* present, and hands out no reference into a missing entries directory.
C26_AddEntryNeedsEntriesDir ==
    [][(last'.op = "add_entry" /\ entriesKind = "absent")
          => (last'.res # "Ok" /\ refs' = refs)]_vars

\* ------------------------------------------------ validating paths

\* The paths handles are built for: the entries path, numbered 0, and its
\* children named by an identifier with the extension "age".
PathIds == 0..(MaxUuid + 1)

\* What is at path n: "absent", "file" or "dir".
PathKind(ek, fls, oth, n) ==
    IF n = 0 THEN ek
    ELSE IF n \in DOMAIN fls /\ fls[n].exists THEN "file"
    ELSE IF Child(EntryFileName(n), TRUE) \in oth THEN "dir"
    ELSE "absent"

\* A vault root as Filesystem::new may find it: nothing, a file or a
\* directory at the entries path, and under a directory any children.
InitPath ==
    /\ entriesKind \in {"absent", "file", "dir"}
    /\ files \in [Uuids -> {NoFile, FileOf(<<>>), FileOf(<<"a">>)}]
    /\ others \in SUBSET ForeignChildren
    /\ entriesKind # "dir" => (others = {} /\ \A id \in Uuids : ~files[id].exists)
    /\ listed = {}
    /\ args = NoArgs
    /\ calls = <<>>
    /\ refs = {}
    /\ writers = {}
    /\ output = <<>>
    /\ created = [id \in Uuids |-> NoEntry]
    /\ rendered = [id \in Uuids |-> NotRendered]
    /\ last = Op("none", 0, "none", NoOpts)
    /\ IdleKv
    /\ IdleCrypto

\* Directory::new (through subdirectory) on one of the paths: the path is
\* looked at, nothing is created.
PathDirectoryNew ==
    \E n \in PathIds :
        /\ last' = Op("Directory::new", n,
                      DirectoryNew(PathKind(entriesKind, files, others, n)), NoOpts)
        /\ UNCHANGED <<args, calls, fsVars, cliVars, kvVars, cryptoVars>>

\* File::new (through subfile) on one of the paths.
PathFileNew ==
    \E n \in PathIds :
        /\ last' = Op("File::new", n,
                      FileNew(PathKind(entriesKind, files, others, n)), NoOpts)
        /\ UNCHANGED <<args, calls, fsVars, cliVars, kvVars, cryptoVars>>

NextPath == PathDirectoryNew \/ PathFileNew

SpecPath == InitPath /\ [][NextPath]_vars

\* Something is at path n, and whether it is a directory.
PathExists(n) ==
    IF n = 0 THEN entriesKind # "absent"
    ELSE (n \in Uuids /\ files[n].exists)
             \/ \E c \in others : c.name = EntryFileName(n)

PathIsDir(n) ==
    IF n = 0 THEN entriesKind = "dir"
    ELSE \E c \in others : c.name = EntryFileName(n) /\ c.is_dir

\* C27: Directory::new(p) fails, with NotADirectory, if and only if p exists
\* and is not a directory; File::new(p) fails, with IsADirectory, if and only
\* if p exists and is a directory; a path that does not exist is accepted by
\* both; and building the handle creates nothing on the filesystem.
C27_PathKindValidation ==
    [][/\ last'.op = "Directory::new" =>
             /\ last'.res = (IF PathExists(last'.id) /\ ~PathIsDir(last'.id)
                             THEN "NotADirectory" ELSE "Ok")
             /\ <<entriesKind, files, others>>' = <<entriesKind, files, others>>
       /\ last'.op = "File::new" =>
             /\ last'.res = (IF PathExists(last'.id) /\ PathIsDir(last'.id)
                             THEN "IsADirectory" ELSE "Ok")
             /\ <<entriesKind, files, others>>' = <<entriesKind, files, others>>]_vars

\* Directory::new was refused on the path of an existing entry file.
C27_Witness ==
    /\ last.op = "Directory::new"
    /\ last.res = "NotADirectory"
    /\ last.id = 1
    /\ files[1].exists
    /\ entriesKind = "dir"

\* ------------------------------------------------ commands: validation

MaxCheckedKeys == 2

\* An initialized vault that may hold entries of earlier runs, and the
\* arguments of one `ciphey new`, valid or not.
InitChecked ==
    /\ entriesKind = "dir"
    /\ files \in [Uuids -> {NoFile, FileOf(<<"a">>)}]
    /\ others = {}
    /\ listed = {}
    /\ refs = {}
    /\ writers = {}
    /\ args \in {NewArgs(rs, name, secret, keys) :
                    rs \in {<<>>, <<<<"A">>>>, <<<<"A">>, <<BadByte>>>>},
                    name \in {<<"n">>, <<"n", BadByte>>},
                    secret \in {<<"s">>, <<BadByte>>},
                    keys \in SeqUpTo({<<"u", "r", "l", "=", "u">>, <<"b", "a", "d">>,
                                      <<"k", BadByte, "=", "v">>}, MaxCheckedKeys)}
    /\ calls = <<>>
    /\ output = <<>>
    /\ created = [id \in Uuids |-> NoEntry]
    /\ rendered = [id \in Uuids |-> NotRendered]
    /\ last = Op("none", 0, "none", NoOpts)
    /\ IdleKv
    /\ IdleCrypto

SpecChecked == InitChecked /\ [][NextNew]_vars

\* An argument that is no Unicode text.
NotUnicode(t) == \E i \in 1..Len(t) : t[i] = BadByte

\* Arguments that `new` cannot take: a recipient, the name, the secret or a
\* --key argument that is no Unicode text, or a --key argument without `=`.
InvalidArgs ==
    \/ \E i \in 1..Len(args.recipient) : NotUnicode(args.recipient[i])
    \/ NotUnicode(args.name)
    \/ NotUnicode(args.secret)
    \/ \E i \in 1..Len(args.key) :
          NotUnicode(args.key[i]) \/ \A j \in 1..Len(args.key[i]) : args.key[i][j] # "="

\* C28: create validates before it touches storage.  A `new` that fails on
\* its recipients, its name, its secret or its key/value pairs has called no
\* storage operation and leaves the set of entries and their contents as they
\* were; and a `new` with such arguments does fail so.
C28_ValidateBeforeStorage ==
    [][last'.op = "new" =>
          /\ InvalidArgs => last'.res \in {"Xflags", "Input", "MissingDelimeter"}
          /\ last'.res \in {"Xflags", "Input", "MissingDelimeter"} =>
                /\ calls' = <<>>
                /\ files' = files
                /\ entriesKind' = entriesKind
                /\ FilesystemEntries(entriesKind', files', others')
                       = FilesystemEntries(entriesKind, files, others)]_vars

\* A `new` with valid recipients, name and secret and a --key argument
\* without `=` behind a good one failed, in a vault that holds an entry.
C28_Witness ==
    /\ last.op = "new"
    /\ last.res = "MissingDelimeter"
    /\ Len(args.key) = 2
    /\ KeyValuePairFromStr(args.key[1]).ok
    /\ ~NotUnicode(args.name) /\ ~NotUnicode(args.secret)
    /\ \E id \in Uuids : files[id].exists
    /\ calls = <<>>

====
